---- MODULE Spec2Model ----
(***************************************************************************)
(* One-time passcodes of the mail module: generation, delivery, rate       *)
(* limiting with exponential backoff, one-shot validation and expiry.      *)
(*                                                                         *)
(* The repository holds two revisions of the module.  src/unnamed/part_000 *)
(* is the revision with scheduleOtpExpiry and the clamped wait message;    *)
(* src/backend/src/mail.ts is the revision whose generateOTP arms the      *)
(* expiry itself.  `impl` says which of the two a behaviour runs.          *)
(*                                                                         *)
(* Node runs every function to completion; sendOTP is suspended only at    *)
(* `await transporter.sendMail`.  One action is one run-to-completion      *)
(* slice: a call up to its return or its await, the continuation of an     *)
(* await, a timer callback, or the passing of time.                        *)
(***************************************************************************)
EXTENDS Integers, Sequences, FiniteSets, Bags, TLC

VARIABLES
  impl,      \* the revision that runs: "part_000" or "mail.ts"
  now,       \* Date.now(), in ms
  OTP,       \* const OTP: Record<string, OTPEntry>
  timers,    \* the bag of setTimeout callbacks not yet run
  pending,   \* the sendMail promises not yet settled, in call order
  last,      \* what the slice just run did: a return, an await, or nothing
  accepted   \* per address, the codes validateOTP accepted since one was last generated

vars == <<impl, now, OTP, timers, pending, last, accepted>>

(***************************************************************************)
(* Program constants.                                                      *)
(***************************************************************************)
OTP_RATE_LIMIT_MS == 60000

OTP_EXPIRE_MS == 21600000

OTP_EXPIRE_TOLERANCE_MS == 60000

(***************************************************************************)
(* Bounds of the model.                                                    *)
(***************************************************************************)
\* Date.now() when the module is loaded
StartTime == 1000

\* Spec: the clock is not advanced beyond StartTime + MaxTime (6 h 5 min)
MaxTime == 21900000

\* SpecBackoff: the clock is not advanced beyond StartTime + MaxBackoffTime (17 h 30 min)
MaxBackoffTime == 63000000

\* setTimeout callbacks and sendMail promises outstanding at the same time
MaxOutstanding == 2

\* by how much the clock may pass the due time of a timer not yet run
MaxLate == 0

(***************************************************************************)
(* Values.                                                                 *)
(***************************************************************************)
\* `undefined` for a number field (lastSendTime?: number)
Undefined == -1

\* an address is the list of pieces email.split("@") yields
Emails == { <<"a", "ok.fr">>, <<"x", "Mailinator.COM">>, <<"nodomain">> }

\* the address of the user who asks again and again
User == <<"a", "ok.fr">>

\* a second address that may hold an entry
Other == <<"b", "ok.fr">>

\* the six-digit strings Math.random may draw, two of them
Codes == { "123456", "654321" }

\* what a caller may submit to validateOTP: a code, or nothing
Submitted == Codes \cup { "" }

\* the block-list read from DISPOSABLE_MAIL
disposableMails == { "mailinator.com", "yopmail.com" }

\* String.prototype.toLowerCase on the domains of the model
toLowerCase(s) ==
  CASE s = "Mailinator.COM" -> "mailinator.com"
    [] OTHER -> s

\* JavaScript truthiness of a number field: undefined and 0 are falsy
Truthy(t) == t # Undefined /\ t # 0

Max(a, b) == IF a >= b THEN a ELSE b

Min(a, b) == IF a <= b THEN a ELSE b

Abs(a) == IF a >= 0 THEN a ELSE 0 - a

\* Math.ceil(a / b) for b > 0
Ceil(a, b) == IF a >= 0 THEN (a + b - 1) \div b ELSE 0 - ((0 - a) \div b)

RECURSIVE Pow2(_)
\* Math.pow(2, n) for n >= 0
Pow2(n) == IF n <= 0 THEN 1 ELSE 2 * Pow2(n - 1)

\* `delete m[email]`
Delete(m, email) == [ e \in DOMAIN m \ {email} |-> m[e] ]

\* `m[email] = entry`
Put(m, email, entry) == [ e \in DOMAIN m \cup {email} |-> IF e = email THEN entry ELSE m[e] ]

(***************************************************************************)
(* Messages.  A message is the template it is built from and the values    *)
(* interpolated into it: the number, the unit and the plural "s".          *)
(***************************************************************************)
MsgNone == [ text |-> "", n |-> 0, unit |-> "", s |-> FALSE ]

MsgDisposable == [ text |-> "Le courriel fourni appartient a un fournisseur d'addresses temporaires",
                   n |-> 0, unit |-> "", s |-> FALSE ]

MsgSent == [ text |-> "Un code vous a ete envoye a l'adresse indiquee", n |-> 0, unit |-> "", s |-> FALSE ]

MsgError == [ text |-> "Erreur lors de l'envoi du code par mail", n |-> 0, unit |-> "", s |-> FALSE ]

\* `Veuillez attendre ${n} ${unit}${s} avant de demander a nouveau un code`
MsgWait(n, unit, s) == [ text |-> "Veuillez attendre avant de demander a nouveau un code",
                         n |-> n, unit |-> unit, s |-> s ]

\* `Veuillez attendre ${secondsLeft} secondes avant de renvoyer un code`
MsgWaitResend(n) == [ text |-> "Veuillez attendre avant de renvoyer un code",
                      n |-> n, unit |-> "seconde", s |-> TRUE ]

(***************************************************************************)
(* The rate limiter of sendOTP.                                            *)
(***************************************************************************)
\* part_000: const effectiveCount, const rateLimit
rateLimit(entry) == OTP_RATE_LIMIT_MS * Pow2(Max(0, entry.recentSendCount - 1))

\* mail.ts: let rateLimit, doubled only for a request within the base interval
rateLimitMail(entry, timeSinceLastSend) ==
  IF timeSinceLastSend < OTP_RATE_LIMIT_MS
  THEN OTP_RATE_LIMIT_MS * Pow2(entry.recentSendCount)
  ELSE OTP_RATE_LIMIT_MS

\* the limit the running revision computes for an entry at time t
RateLimitAt(entry, t) ==
  IF impl = "part_000" THEN rateLimit(entry) ELSE rateLimitMail(entry, t - entry.lastSendTime)

\* waitMessage without the clamp to the validity window
waitMessageUnclamped(limit, timeSinceLastSend) ==
  LET secondsLeft == Ceil(limit - timeSinceLastSend, 1000)
      minutesLeft == Ceil(secondsLeft, 60)
  IN  IF secondsLeft > 120
      THEN MsgWait(minutesLeft, "minute", minutesLeft > 1)
      ELSE MsgWait(secondsLeft, "seconde", secondsLeft > 1)

\* part_000: the message of a denial
waitMessage(limit, timeSinceLastSend) ==
  LET secondsLeft == Ceil(limit - timeSinceLastSend, 1000)
      maxSecondsLeft == Ceil(OTP_EXPIRE_MS, 1000)
      clampedSecondsLeft == Min(secondsLeft, maxSecondsLeft)
      minutesLeft == Ceil(clampedSecondsLeft, 60)
  IN  IF clampedSecondsLeft > 120
      THEN MsgWait(minutesLeft, "minute", minutesLeft > 1)
      ELSE MsgWait(clampedSecondsLeft, "seconde", clampedSecondsLeft > 1)

\* mail.ts: the message of a denial
waitMessageMail(limit, timeSinceLastSend) == MsgWaitResend(Ceil(limit - timeSinceLastSend, 1000))

\* `email.split("@")[1].toLowerCase()` does not throw
HasProvider(email) == Len(email) >= 2

\* `disposableMails.includes(provider)`
Disposable(email) == toLowerCase(email[2]) \in disposableMails

\* `email in OTP && OTP[email].lastSendTime`
Limited(m, email) == email \in DOMAIN m /\ Truthy(m[email].lastSendTime)

\* `timeSinceLastSend < rateLimit` in the rate-limit branch
TooSoon(m, email, t) ==
  /\ Limited(m, email)
  /\ t - m[email].lastSendTime < RateLimitAt(m[email], t)

(***************************************************************************)
(* The store.                                                              *)
(***************************************************************************)
\* generateOTP writing a fresh entry over the previous one
generateOTP_Reset(m, email, tmp) ==
  Put(m, email, [ code |-> tmp, lastSendTime |-> Undefined, recentSendCount |-> 0 ])

\* part_000: only the code is replaced
generateOTP(m, email, tmp) ==
  Put(m, email, [ code |-> tmp,
                  lastSendTime |-> IF email \in DOMAIN m THEN m[email].lastSendTime ELSE Undefined,
                  recentSendCount |-> IF email \in DOMAIN m THEN m[email].recentSendCount ELSE 0 ])

\* mail.ts: a fresh entry each time
generateOTPMail(m, email, tmp) ==
  Put(m, email, [ code |-> tmp, lastSendTime |-> Undefined, recentSendCount |-> 0 ])

\* mail.ts: `OTP[email].recentSendCount = 0` once the rate limit has passed
resetCount(m, email) ==
  IF Limited(m, email) THEN [ m EXCEPT ![email].recentSendCount = 0 ] ELSE m

\* the commit without `recentSendCount++`
commitSend_NoCount(m, email, t) ==
  [ m EXCEPT ![email].lastSendTime = t ]

\* the lines after the await: lastSendTime = Date.now(); recentSendCount++
commitSend(m, email, t) ==
  [ m EXCEPT ![email].lastSendTime = t, ![email].recentSendCount = @ + 1 ]

\* validateOTP's condition
validates(m, email, otp) == otp # "" /\ email \in DOMAIN m /\ m[email].code = otp

\* part_000: the timer scheduleOtpExpiry arms
expiryTimer(email, expectedLastSendTime, t) ==
  [ email |-> email, guarded |-> TRUE, expected |-> expectedLastSendTime, due |-> t + OTP_EXPIRE_MS ]

\* mail.ts: the timer generateOTP arms
deleteTimer(email, t) ==
  [ email |-> email, guarded |-> FALSE, expected |-> Undefined, due |-> t + OTP_EXPIRE_MS ]

\* the callback with the tolerance added to the age it requires
expiryCallback_Late(m, tm, t) ==
  IF tm.email \notin DOMAIN m \/ ~Truthy(m[tm.email].lastSendTime) THEN m
  ELSE LET entry == m[tm.email]
           delta == Abs(entry.lastSendTime - tm.expected)
           age == t - entry.lastSendTime
       IN  IF delta <= OTP_EXPIRE_TOLERANCE_MS /\ age >= OTP_EXPIRE_MS + OTP_EXPIRE_TOLERANCE_MS
           THEN Delete(m, tm.email)
           ELSE m

\* part_000: the callback of scheduleOtpExpiry, run at time t
expiryCallback(m, tm, t) ==
  IF tm.email \notin DOMAIN m \/ ~Truthy(m[tm.email].lastSendTime) THEN m
  ELSE LET entry == m[tm.email]
           delta == Abs(entry.lastSendTime - tm.expected)
           age == t - entry.lastSendTime
       IN  IF delta <= OTP_EXPIRE_TOLERANCE_MS /\ age >= OTP_EXPIRE_MS - OTP_EXPIRE_TOLERANCE_MS
           THEN Delete(m, tm.email)
           ELSE m

\* mail.ts: `() => {delete OTP[email]}`
deleteCallback(m, tm) == Delete(m, tm.email)

(***************************************************************************)
(* What a slice leaves in `last`: which function ran, where it stopped,    *)
(* what it was given and what it returned.  Three fields are not values of *)
(* the program but record what the slice went through: `gated` (the        *)
(* rate-limit branch was entered), `delivered` (sendMail resolved) and     *)
(* `prev` (the entry of the address when sendOTP was called).              *)
(***************************************************************************)
\* the entry of an address that has none
NoEntry == [ code |-> "", lastSendTime |-> Undefined, recentSendCount |-> 0 ]

EntryOf(m, email) == IF email \in DOMAIN m THEN m[email] ELSE NoEntry

None == [ op |-> "", at |-> "", email |-> << >>, otp |-> "", text |-> "", valid |-> FALSE, msg |-> MsgNone,
          gated |-> FALSE, delivered |-> FALSE, timeSinceLastSend |-> 0, rateLimit |-> 0,
          prev |-> NoEntry ]

\* sendOTP returned { msg, valid } before any await
Returned(email, valid, msg) ==
  [ None EXCEPT !.op = "sendOTP", !.at = "call", !.email = email, !.valid = valid, !.msg = msg ]

\* sendOTP returned from the rate-limit branch, with the locals it computed
Denied(email, msg, since, limit) ==
  [ Returned(email, FALSE, msg) EXCEPT !.gated = TRUE, !.timeSinceLastSend = since, !.rateLimit = limit ]

\* sendOTP is suspended at `await transporter.sendMail`
Awaiting(email, gated, since, limit, prev) ==
  [ None EXCEPT !.op = "sendOTP", !.at = "await", !.email = email, !.gated = gated,
                !.timeSinceLastSend = since, !.rateLimit = limit, !.prev = prev ]

\* sendOTP returned after the await; `text` is the code its mail carried
Resumed(call, delivered, valid, msg) ==
  [ None EXCEPT !.op = "sendOTP", !.at = "resume", !.email = call.to, !.gated = call.gated,
                !.text = call.text,
                !.delivered = delivered, !.valid = valid, !.msg = msg ]

\* validateOTP returned
Validated(email, otp, result) ==
  [ None EXCEPT !.op = "validateOTP", !.at = "call", !.email = email, !.otp = otp, !.valid = result ]

(***************************************************************************)
(* Init: the module has just been loaded.                                  *)
(***************************************************************************)
Init ==
  /\ impl \in { "part_000", "mail.ts" }
  /\ now = StartTime
  /\ OTP = << >>
  /\ timers = EmptyBag
  /\ pending = << >>
  /\ last = None
  /\ accepted = [ e \in Emails \cup { Other } |-> << >> ]

(***************************************************************************)
(* sendOTP, up to its first return or to the await.                        *)
(***************************************************************************)
\* email.split("@")[1] is undefined: toLowerCase throws, the catch block answers
SendOTP_Throws(email) ==
  /\ ~HasProvider(email)
  /\ last' = Returned(email, FALSE, MsgError)
  /\ UNCHANGED <<impl, now, OTP, timers, pending, accepted>>

\* the block-list consulted only after generateOTP
SendOTP_DisposableLate(email) ==
  /\ HasProvider(email)
  /\ Disposable(email)
  /\ OTP' = generateOTP(OTP, email, "123456")
  /\ last' = Returned(email, FALSE, MsgDisposable)
  /\ UNCHANGED <<impl, now, timers, pending, accepted>>

\* the provider is in the block-list
SendOTP_Disposable(email) ==
  /\ HasProvider(email)
  /\ Disposable(email)
  /\ last' = Returned(email, FALSE, MsgDisposable)
  /\ UNCHANGED <<impl, now, OTP, timers, pending, accepted>>

\* a denial that restarts the wait: lastSendTime = Date.now()
SendOTP_WaitRestarts(email) ==
  /\ HasProvider(email)
  /\ ~Disposable(email)
  /\ TooSoon(OTP, email, now)
  /\ LET since == now - OTP[email].lastSendTime
         limit == RateLimitAt(OTP[email], now)
     IN  last' = Denied(email,
                        IF impl = "part_000" THEN waitMessage(limit, since)
                                             ELSE waitMessageMail(limit, since),
                        since, limit)
  /\ OTP' = [ OTP EXCEPT ![email].lastSendTime = now ]
  /\ UNCHANGED <<impl, now, timers, pending, accepted>>

\* the rate-limit branch returns the wait message
SendOTP_Wait(email) ==
  /\ HasProvider(email)
  /\ ~Disposable(email)
  /\ TooSoon(OTP, email, now)
  /\ LET since == now - OTP[email].lastSendTime
         limit == RateLimitAt(OTP[email], now)
     IN  last' = Denied(email,
                        IF impl = "part_000" THEN waitMessage(limit, since)
                                             ELSE waitMessageMail(limit, since),
                        since, limit)
  /\ UNCHANGED <<impl, now, OTP, timers, pending, accepted>>

\* sendOTP holding a lock of the address from the check to the commit
SendOTP_AwaitExclusive(email, tmp) ==
  /\ HasProvider(email)
  /\ ~Disposable(email)
  /\ ~TooSoon(OTP, email, now)
  /\ \A i \in 1..Len(pending) : pending[i].to # email
  /\ OTP' = generateOTP(OTP, email, tmp)
  /\ pending' = Append(pending, [ to |-> email, text |-> tmp, gated |-> Limited(OTP, email) ])
  /\ accepted' = [ accepted EXCEPT ![email] = << >> ]
  /\ last' = Awaiting(email, Limited(OTP, email), 0, 0, EntryOf(OTP, email))
  /\ UNCHANGED <<impl, now, timers>>

\* the request passes: generateOTP, then sendMail is called and awaited
SendOTP_Await(email, tmp) ==
  /\ HasProvider(email)
  /\ ~Disposable(email)
  /\ ~TooSoon(OTP, email, now)
  /\ OTP' = IF impl = "part_000" THEN generateOTP(OTP, email, tmp)
                                 ELSE generateOTPMail(resetCount(OTP, email), email, tmp)
  /\ timers' = IF impl = "part_000" THEN timers
                                    ELSE timers (+) SetToBag({ deleteTimer(email, now) })
  /\ pending' = Append(pending, [ to |-> email, text |-> OTP'[email].code,
                                  gated |-> Limited(OTP, email) ])
  /\ accepted' = [ accepted EXCEPT ![email] = << >> ]
  /\ last' = IF Limited(OTP, email)
             THEN Awaiting(email, TRUE, now - OTP[email].lastSendTime,
                           RateLimitAt(OTP[email], now), EntryOf(OTP, email))
             ELSE Awaiting(email, FALSE, 0, 0, EntryOf(OTP, email))
  /\ UNCHANGED <<impl, now>>

(***************************************************************************)
(* sendOTP, from the await to its return.                                  *)
(***************************************************************************)
Settle(i) == SubSeq(pending, 1, i - 1) \o SubSeq(pending, i + 1, Len(pending))

\* sendMail resolved and the entry is there: the send is committed
SendOTP_Commit(i) ==
  /\ i \in 1..Len(pending)
  /\ pending[i].to \in DOMAIN OTP
  /\ OTP' = commitSend(OTP, pending[i].to, now)
  /\ timers' = IF impl = "part_000"
               THEN timers (+) SetToBag({ expiryTimer(pending[i].to, OTP'[pending[i].to].lastSendTime, now) })
               ELSE timers
  /\ pending' = Settle(i)
  /\ last' = Resumed(pending[i], TRUE, TRUE, MsgSent)
  /\ UNCHANGED <<impl, now, accepted>>

\* sendMail resolved but OTP[email] is undefined: the assignment throws
SendOTP_CommitThrows(i) ==
  /\ i \in 1..Len(pending)
  /\ pending[i].to \notin DOMAIN OTP
  /\ pending' = Settle(i)
  /\ last' = Resumed(pending[i], TRUE, FALSE, MsgError)
  /\ UNCHANGED <<impl, now, OTP, timers, accepted>>

\* sendMail not awaited: its rejection is not seen and the send is reported
SendOTP_CatchUnseen(i) ==
  /\ i \in 1..Len(pending)
  /\ pending' = Settle(i)
  /\ last' = Resumed(pending[i], FALSE, TRUE, MsgSent)
  /\ UNCHANGED <<impl, now, OTP, timers, accepted>>

\* sendMail rejected: the catch block answers
SendOTP_Catch(i) ==
  /\ i \in 1..Len(pending)
  /\ pending' = Settle(i)
  /\ last' = Resumed(pending[i], FALSE, FALSE, MsgError)
  /\ UNCHANGED <<impl, now, OTP, timers, accepted>>

(***************************************************************************)
(* validateOTP.                                                            *)
(***************************************************************************)
\* validateOTP without its `delete OTP[email]`
validateOTP_Keep(email, otp) ==
  /\ last' = Validated(email, otp, validates(OTP, email, otp))
  /\ accepted' = IF validates(OTP, email, otp)
                 THEN [ accepted EXCEPT ![email] = Append(@, otp) ] ELSE accepted
  /\ UNCHANGED <<impl, now, OTP, timers, pending>>

\* validateOTP deleting the entry whatever was submitted
validateOTP_Consume(email, otp) ==
  /\ OTP' = Delete(OTP, email)
  /\ last' = Validated(email, otp, validates(OTP, email, otp))
  /\ accepted' = IF validates(OTP, email, otp)
                 THEN [ accepted EXCEPT ![email] = Append(@, otp) ] ELSE accepted
  /\ UNCHANGED <<impl, now, timers, pending>>

validateOTP(email, otp) ==
  /\ OTP' = IF validates(OTP, email, otp) THEN Delete(OTP, email) ELSE OTP
  /\ last' = Validated(email, otp, validates(OTP, email, otp))
  /\ accepted' = IF validates(OTP, email, otp)
                 THEN [ accepted EXCEPT ![email] = Append(@, otp) ] ELSE accepted
  /\ UNCHANGED <<impl, now, timers, pending>>

(***************************************************************************)
(* Timers and time.                                                        *)
(***************************************************************************)
\* a setTimeout callback runs, not before its delay has passed
TimerFires(tm) ==
  /\ BagIn(tm, timers)
  /\ now >= tm.due
  /\ OTP' = IF tm.guarded THEN expiryCallback(OTP, tm, now) ELSE deleteCallback(OTP, tm)
  /\ timers' = timers (-) SetToBag({tm})
  /\ last' = None
  /\ UNCHANGED <<impl, now, pending, accepted>>

\* Spec: the first instants at which a request is made, in ms after the module is loaded
Instants == { 500, 30000, 61000 }

\* SpecBackoff: the same, and the last second of the base interval
BackoffInstants == Instants \cup { 59500 }

\* the instants at which something changes: a rate limit has passed, a timer is due
Events ==
  { OTP[e].lastSendTime + RateLimitAt(OTP[e], OTP[e].lastSendTime) : e \in { x \in DOMAIN OTP : Limited(OTP, x) } }
  \cup { tm.due : tm \in BagToSet(timers) }

\* time passes until t; a due timer is run at most MaxLate after its time
Tick(t) ==
  /\ t > now
  /\ \A tm \in BagToSet(timers) : t <= tm.due + MaxLate
  /\ now' = t
  /\ last' = None
  /\ UNCHANGED <<impl, OTP, timers, pending, accepted>>

\* the validateOTP calls made: any submission for the address of the user, and
\* one code for an address that never has an entry
ValidateCalls == { << User, otp >> : otp \in Submitted } \cup { << <<"x", "Mailinator.COM">>, "123456" >> }

\* the callbacks armed and the deliveries awaited
Outstanding == BagCardinality(timers) + Len(pending)

Next ==
  \/ \E email \in Emails : SendOTP_Throws(email)
  \/ \E email \in Emails : SendOTP_Disposable(email)
  \/ \E email \in Emails : SendOTP_Wait(email)
  \/ \E email \in Emails, tmp \in Codes :
       Outstanding < MaxOutstanding /\ SendOTP_Await(email, tmp)
  \/ \E i \in 1..Len(pending) : SendOTP_Commit(i)
  \/ \E i \in 1..Len(pending) : SendOTP_CommitThrows(i)
  \/ \E i \in 1..Len(pending) : SendOTP_Catch(i)
  \/ \E call \in ValidateCalls : validateOTP(call[1], call[2])
  \/ \E tm \in BagToSet(timers) : TimerFires(tm)
  \/ \E t \in { StartTime + i : i \in Instants } \cup Events :
       t <= StartTime + MaxTime /\ Tick(t)

Spec == Init /\ [][Next]_vars

(***************************************************************************)
(* SpecBackoff: one user of part_000 who asks for a code, receives it,     *)
(* waits for the rate limit to pass or for a timer, and asks again.        *)
(***************************************************************************)
InitBackoff == Init /\ impl = "part_000"

NextBackoff ==
  \/ SendOTP_Wait(User)
  \/ pending = << >> /\ SendOTP_Await(User, "123456")
  \/ SendOTP_Commit(1)
  \/ \E tm \in BagToSet(timers) : TimerFires(tm)
  \/ \E t \in { StartTime + i : i \in BackoffInstants } \cup Events :
       t <= StartTime + MaxBackoffTime /\ Tick(t)

SpecBackoff == InitBackoff /\ [][NextBackoff]_vars

(***************************************************************************)
(* SpecOthers: two users of part_000, each with an address that may hold   *)
(* an entry, during the first minute or so: no timer is due yet.           *)
(***************************************************************************)
InitOthers == Init /\ impl = "part_000"

NextOthers ==
  \/ \E email \in { User, Other } : SendOTP_Wait(email)
  \/ \E email \in { User, Other }, tmp \in Codes :
       Outstanding < MaxOutstanding /\ SendOTP_Await(email, tmp)
  \/ \E i \in 1..Len(pending) : SendOTP_Commit(i)
  \/ \E i \in 1..Len(pending) : SendOTP_CommitThrows(i)
  \/ \E i \in 1..Len(pending) : SendOTP_Catch(i)
  \/ \E email \in { User, Other } : validateOTP(email, "123456")
  \/ \E t \in { StartTime + i : i \in Instants } : Tick(t)

SpecOthers == InitOthers /\ [][NextOthers]_vars

(***************************************************************************)
(* Properties.                                                             *)
(***************************************************************************)
\* sendOTP returned the wait message
IsWait(l) == l.op = "sendOTP" /\ l.at = "call" /\ l.gated

\* C1: between two generations of a code for an address, validateOTP
\* returns true at most once for it; the call that returned true has deleted
\* the entry, and the entry stays absent, so every later call returns false.
C1_OneShot ==
  /\ \A e \in Emails : Len(accepted[e]) <= 1
  /\ \A e \in Emails : Len(accepted[e]) = 1 => e \notin DOMAIN OTP
  /\ (last.op = "validateOTP" /\ last.valid) =>
       (last.email \notin DOMAIN OTP /\ accepted[last.email] = << last.otp >>)

\* the code that was accepted was submitted again, with no new code generated
\* in between, and refused
C1_Witness ==
  /\ accepted[User] = << "123456" >>
  /\ last = Validated(User, "123456", FALSE)

\* C2: a validateOTP call with an empty code, with a code other than the
\* stored one, or for an address without entry returns false and leaves the
\* map, the timers and the deliveries as they were; the stored code of every
\* entry still validates afterwards.
C2_FailedValidationFrame ==
  [][ ( /\ last'.op = "validateOTP"
        /\ \/ last'.otp = ""
           \/ last'.email \notin DOMAIN OTP
           \/ OTP[last'.email].code # last'.otp )
      => ( /\ ~last'.valid
           /\ OTP' = OTP
           /\ timers' = timers
           /\ pending' = pending
           /\ \A e \in DOMAIN OTP : validates(OTP', e, OTP[e].code) ) ]_vars

\* a wrong, non-empty code was refused for an address that has an entry
C2_Witness ==
  /\ last.op = "validateOTP"
  /\ last.email = User
  /\ User \in DOMAIN OTP
  /\ last.otp \notin { "", OTP[User].code }
  /\ ~last.valid

\* the address has a provider and the provider is not in the block-list
Admissible(email) == HasProvider(email) /\ ~Disposable(email)

\* the address has no entry, or an entry without lastSendTime
Fresh(m, email) == email \notin DOMAIN m \/ m[email].lastSendTime = Undefined

\* C3 (as stated): every send request for an admissible address without
\* entry or without lastSendTime returns valid = true.
C3_FreshRequestReturnsValid ==
  ( /\ impl = "part_000"
    /\ last.op = "sendOTP"
    /\ last.at \in { "call", "resume" }
    /\ ~last.gated
    /\ Admissible(last.email) )
  => last.valid

\* C3 (amended): a send request for an admissible address without entry or
\* without lastSendTime is never refused: it generates a code and awaits the
\* delivery; it then returns valid = true exactly when sendMail resolved and
\* the entry is still there, and valid = false otherwise.
C3_FreshRequestPasses ==
  [][ /\ ( /\ last'.op = "sendOTP"
           /\ last'.at \in { "call", "await" }
           /\ Admissible(last'.email)
           /\ Fresh(OTP, last'.email) )
         => ( /\ last'.at = "await"
              /\ ~last'.gated
              /\ last'.email \in DOMAIN OTP'
              /\ Len(pending') = Len(pending) + 1
              /\ pending'[Len(pending')].to = last'.email
              /\ pending'[Len(pending')].text = OTP'[last'.email].code )
      /\ ( /\ last'.op = "sendOTP"
           /\ last'.at = "resume"
           /\ ~last'.gated )
         => ( last'.valid <=> (last'.delivered /\ last'.email \in DOMAIN OTP) ) ]_vars

\* the first request of the user was delivered and committed
C3_Witness ==
  /\ impl = "part_000"
  /\ last.op = "sendOTP"
  /\ last.at = "resume"
  /\ last.email = User
  /\ ~last.gated
  /\ last.valid
  /\ OTP[User].recentSendCount = 1

\* C4 (as stated): after the Nth successful send a request is denied iff the
\* time since that send is below min(BASE * 2^(N-1), validity window), and
\* the limit the decision uses never exceeds the validity window.
C4_BackoffSpacing ==
  ( /\ impl = "part_000"
    /\ last.op = "sendOTP"
    /\ last.at \in { "call", "await" }
    /\ last.gated )
  => LET N == OTP[last.email].recentSendCount
         limit == Min(OTP_RATE_LIMIT_MS * Pow2(N - 1), OTP_EXPIRE_MS)
     IN  /\ N >= 1
         /\ last.rateLimit = limit
         /\ last.rateLimit <= OTP_EXPIRE_MS
         /\ (last.at = "call") <=> (last.timeSinceLastSend < limit)

\* C5: a request refused by the rate limiter returns valid = false and
\* leaves the map (code, lastSendTime, recentSendCount), the timers and the
\* deliveries as they were.
C5_DeniedFrame ==
  [][ IsWait(last')
      => ( /\ ~last'.valid
           /\ TooSoon(OTP, last'.email, now)
           /\ OTP' = OTP
           /\ timers' = timers
           /\ pending' = pending ) ]_vars

\* the user was refused while an entry with a committed send is in the map
C5_Witness ==
  /\ IsWait(last)
  /\ last.email = User
  /\ OTP[User].recentSendCount >= 1

\* the timer would delete the entry of its address as it is now
WouldDelete(tm, m) ==
  \/ ~tm.guarded
  \/ /\ Truthy(m[tm.email].lastSendTime)
     /\ Abs(m[tm.email].lastSendTime - tm.expected) <= OTP_EXPIRE_TOLERANCE_MS

\* C6 (as stated, its safety part): every entry of the map for which no
\* delivery is awaited has a timer armed that will remove it when the
\* validity window has passed.
C6_EveryEntryExpires ==
  impl = "part_000" =>
    \A e \in DOMAIN OTP :
      \/ \E i \in 1..Len(pending) : pending[i].to = e
      \/ \E tm \in BagToSet(timers) : tm.email = e /\ WouldDelete(tm, OTP)

\* lastSendTime and recentSendCount as the rate limiter reads them
RateView(m, email) == << EntryOf(m, email).lastSendTime, EntryOf(m, email).recentSendCount >>

\* C7: a request whose delivery fails returns valid = false and leaves
\* lastSendTime and recentSendCount of the address as they were: neither the
\* slice up to the await nor the catch block changes them or arms a timer.
C7_FailedDeliveryNotCounted ==
  [][ impl = "part_000" =>
      /\ (last'.op = "sendOTP" /\ last'.at = "await")
         => ( /\ RateView(OTP', last'.email) = RateView(OTP, last'.email)
              /\ RateView(OTP, last'.email) = << last'.prev.lastSendTime, last'.prev.recentSendCount >>
              /\ timers' = timers )
      /\ (last'.op = "sendOTP" /\ last'.at = "resume" /\ ~last'.delivered)
         => ( /\ ~last'.valid
              /\ OTP' = OTP
              /\ timers' = timers ) ]_vars

\* a delivery failed for the user, whose earlier send still governs the limit
C7_Witness ==
  /\ impl = "part_000"
  /\ last.op = "sendOTP"
  /\ last.at = "resume"
  /\ ~last.delivered
  /\ last.gated
  /\ last.email = User
  /\ User \in DOMAIN OTP
  /\ OTP[User].recentSendCount = 1
  /\ OTP[User].lastSendTime = StartTime

\* C8 (as stated): when the delivery of a request fails, the entry of the
\* address (its presence and its code) is what it was before the request.
\* Stated for a failure that follows the request at once, no other call or
\* timer in between.
C8_NoPartialCommit ==
  [][ ( /\ impl = "part_000"
        /\ last.op = "sendOTP"
        /\ last.at = "await"
        /\ Len(pending) = 1
        /\ last'.op = "sendOTP"
        /\ last'.at = "resume"
        /\ ~last'.delivered )
      => EntryOf(OTP', last'.email) = last.prev ]_vars

\* C9: a request for an address of a block-listed provider returns the
\* fixed refusal without entering the rate-limit branch, and leaves the map,
\* the timers and the deliveries as they were.
C9_DisposableFrame ==
  [][ ( /\ last'.op = "sendOTP"
        /\ HasProvider(last'.email)
        /\ Disposable(last'.email) )
      => ( /\ last'.at = "call"
           /\ ~last'.valid
           /\ ~last'.gated
           /\ last'.msg = MsgDisposable
           /\ OTP' = OTP
           /\ timers' = timers
           /\ pending' = pending ) ]_vars

\* a block-listed address was refused while the user has an entry
C9_Witness ==
  /\ last = Returned(<<"x", "Mailinator.COM">>, FALSE, MsgDisposable)
  /\ User \in DOMAIN OTP
  /\ OTP[User].recentSendCount >= 1

\* the least integer not below a / b, for a > 0 and b > 0
CeilOf(a, b) == IF a % b = 0 THEN a \div b ELSE (a \div b) + 1

\* C10: the message of a denial shows w = min(ceil((limit - elapsed) / 1000),
\* 21600) as ceil(w / 60) minutes when w > 120 and as w seconds otherwise,
\* with the plural exactly when the number shown exceeds 1; a request made
\* at once after the first send shows 60 seconds, one made 30 s later 30.
C10_WaitMessage ==
  ( impl = "part_000" /\ IsWait(last) )
  => LET w == Min(CeilOf(last.rateLimit - last.timeSinceLastSend, 1000), 21600)
         shown == IF w > 120 THEN CeilOf(w, 60) ELSE w
     IN  /\ last.rateLimit - last.timeSinceLastSend > 0
         /\ last.msg.n = shown
         /\ last.msg.unit = IF w > 120 THEN "minute" ELSE "seconde"
         /\ last.msg.s <=> (shown > 1)
         /\ last.msg.text = MsgWait(0, "", FALSE).text
         /\ (OTP[last.email].recentSendCount = 1 /\ last.timeSinceLastSend = 0)
            => last.msg = MsgWait(60, "seconde", TRUE)
         /\ (OTP[last.email].recentSendCount = 1 /\ last.timeSinceLastSend = 30000)
            => last.msg = MsgWait(30, "seconde", TRUE)

\* a denial whose wait was clamped to the validity window: 360 minutes
C10_Witness ==
  /\ impl = "part_000"
  /\ IsWait(last)
  /\ last.rateLimit - last.timeSinceLastSend > OTP_EXPIRE_MS
  /\ last.msg = MsgWait(360, "minute", TRUE)

\* C11 (as stated): the callback of an expiry timer removes the entry of its
\* address only when the timer is the one armed by the commit that set the
\* entry's lastSendTime; a timer armed by an earlier commit removes nothing.
C11_StaleTimerGuard ==
  [][ impl = "part_000" =>
      \A tm \in BagToSet(timers) :
        ( /\ timers' = timers (-) SetToBag({tm})
          /\ tm.email \in DOMAIN OTP
          /\ tm.email \notin DOMAIN OTP' )
        => tm.expected = OTP[tm.email].lastSendTime ]_vars

\* recentSendCount of an address as the rate limiter reads it: 0 without entry
CountOf(m, email) == EntryOf(m, email).recentSendCount

\* the step ran the callback of an expiry timer of the address
ExpiryRan(email) ==
  \E tm \in BagToSet(timers) : tm.email = email /\ timers' = timers (-) SetToBag({tm})

\* C12 (as stated): recentSendCount of an address never decreases, and goes
\* back to zero only when the callback of an expiry timer removes the entry.
C12_CountResetOnlyByExpiry ==
  [][ impl = "part_000" =>
      \A e \in Emails :
        CountOf(OTP', e) < CountOf(OTP, e) => (e \notin DOMAIN OTP' /\ ExpiryRan(e)) ]_vars

\* C12 (amended): while the entry of an address exists its recentSendCount
\* never decreases; the entry is removed only by the callback of an expiry
\* timer or by a validateOTP call that returns true; an entry that appears
\* for an address without one starts with recentSendCount = 0.
C12_CountResetOnlyByRemoval ==
  [][ impl = "part_000" =>
      \A e \in Emails :
        /\ (e \in DOMAIN OTP /\ e \in DOMAIN OTP')
           => OTP'[e].recentSendCount >= OTP[e].recentSendCount
        /\ (e \in DOMAIN OTP /\ e \notin DOMAIN OTP')
           => (ExpiryRan(e) \/ last' = Validated(e, OTP[e].code, TRUE))
        /\ (e \notin DOMAIN OTP /\ e \in DOMAIN OTP')
           => (OTP'[e].recentSendCount = 0 /\ OTP'[e].lastSendTime = Undefined) ]_vars

\* before any timer is due, the user, whose earlier send was committed, has
\* asked again and a fresh entry with recentSendCount = 0 was created:
\* validateOTP had removed the entry
C12_Witness ==
  /\ impl = "part_000"
  /\ now < StartTime + OTP_EXPIRE_MS
  /\ \E tm \in BagToSet(timers) : tm.email = User
  /\ last.op = "sendOTP"
  /\ last.at = "await"
  /\ last.email = User
  /\ last.prev = NoEntry
  /\ OTP[User].recentSendCount = 0

\* C13: the slice of sendOTP that runs generateOTP leaves lastSendTime and
\* recentSendCount of an existing entry as they were and creates an entry
\* with recentSendCount = 0 and no lastSendTime for an address without one;
\* the entries of the other addresses are unchanged; and as long as an entry
\* exists, its lastSendTime and recentSendCount are changed by no step but
\* the commit of a delivered send for its address.
C13_GenerateFrame ==
  [][ /\ (last'.op = "sendOTP" /\ last'.at = "await")
         => LET e == last'.email
            IN  /\ DOMAIN OTP' = DOMAIN OTP \cup {e}
                /\ e \in DOMAIN OTP
                   => /\ OTP'[e].lastSendTime = OTP[e].lastSendTime
                      /\ OTP'[e].recentSendCount = OTP[e].recentSendCount
                /\ e \notin DOMAIN OTP
                   => /\ OTP'[e].lastSendTime = Undefined
                      /\ OTP'[e].recentSendCount = 0
                /\ \A o \in DOMAIN OTP \ {e} : OTP'[o] = OTP[o]
      /\ \A e \in DOMAIN OTP \cap DOMAIN OTP' :
           RateView(OTP', e) # RateView(OTP, e)
           => /\ last'.op = "sendOTP"
              /\ last'.at = "resume"
              /\ last'.delivered
              /\ last'.email = e
              /\ \A o \in DOMAIN OTP \ {e} : OTP'[o] = OTP[o] ]_vars

\* the user, whose first send was committed, asked again once the rate limit
\* had passed: the code was replaced, lastSendTime and recentSendCount are
\* those of the first send, and the other address holds an entry
C13_Witness ==
  /\ last.op = "sendOTP"
  /\ last.at = "await"
  /\ last.email = User
  /\ last.prev.recentSendCount = 1
  /\ OTP[User].code # last.prev.code
  /\ OTP[User].recentSendCount = 1
  /\ OTP[User].lastSendTime = StartTime
  /\ Other \in DOMAIN OTP

\* C14: nothing serialises the requests for one address: while a delivery
\* for an address is awaited, a further request for it that the rate limiter
\* does not deny (it reads the entry, which no commit has updated yet) goes
\* on to generateOTP and to its own await.
C14_NoMutualExclusion ==
  \A i \in 1..Len(pending) :
    ~TooSoon(OTP, pending[i].to, now) => ENABLED SendOTP_Await(pending[i].to, "123456")

\* the race has run: two requests of the user passed the check before either
\* was committed (the one committed last never entered the rate-limit
\* branch), both returned valid = true, recentSendCount is 2, and the two
\* commits are less than the base interval apart
C14_Witness ==
  /\ impl = "part_000"
  /\ last.op = "sendOTP"
  /\ last.at = "resume"
  /\ last.email = User
  /\ last.valid
  /\ ~last.gated
  /\ OTP[User].recentSendCount = 2
  /\ \E tm \in BagToSet(timers) :
       /\ tm.email = User
       /\ tm.expected < OTP[User].lastSendTime
       /\ OTP[User].lastSendTime - tm.expected < OTP_RATE_LIMIT_MS

\* C15 (as stated): whenever sendMail resolves for a request, sendOTP returns
\* valid = true, the entry of the address exists with lastSendTime = now and
\* recentSendCount one more than before, and an expiry timer for that
\* timestamp has been armed, whatever ran while the delivery was awaited.
C15_CommitFollowsDelivery ==
  [][ ( /\ impl = "part_000"
        /\ last'.op = "sendOTP"
        /\ last'.at = "resume"
        /\ last'.delivered )
      => ( /\ last'.valid
           /\ last'.email \in DOMAIN OTP'
           /\ OTP'[last'.email].lastSendTime = now
           /\ OTP'[last'.email].recentSendCount = CountOf(OTP, last'.email) + 1
           /\ timers' = timers (+) SetToBag({ expiryTimer(last'.email, now, now) }) ) ]_vars

\* the only send ever committed for the address is the one just committed:
\* one timer of the address is armed and none can have run yet
OnlyCommit(email) ==
  /\ now < StartTime + OTP_EXPIRE_MS
  /\ BagCardinality([ tm \in { x \in BagToSet(timers) : x.email = email } |-> timers[tm] ]) = 1

\* C16 (as stated): when a sendOTP call returns valid = true and no other
\* request for the address has been accepted, the code stored for the
\* address is the code its mail carried, whatever requests overlap it.
C16_DeliveredIsStored ==
  ( /\ impl = "part_000"
    /\ last.op = "sendOTP"
    /\ last.at = "resume"
    /\ last.valid
    /\ OnlyCommit(last.email) )
  => OTP[last.email].code = last.text

\* C17: whenever the rate limiter would deny a request for an address, the
\* last commit for it is no older than the validity window (plus the
\* lateness of a timer) and the expiry timer armed by that commit is still
\* to run: once the window has passed since the last commit, either the
\* limit has passed or the timer has removed the entry, and the request is
\* allowed, whatever recentSendCount has reached.
C17_NoLockOut ==
  impl = "part_000" =>
    \A e \in DOMAIN OTP :
      TooSoon(OTP, e, now)
      => /\ now - OTP[e].lastSendTime <= OTP_EXPIRE_MS + MaxLate
         /\ \E tm \in BagToSet(timers) :
              /\ tm.email = e
              /\ tm.expected = OTP[e].lastSendTime
              /\ tm.due = OTP[e].lastSendTime + OTP_EXPIRE_MS

\* a request was denied when the validity window had just passed since the
\* last commit, by a limit longer than the window: only the timer, due now,
\* ends the wait
C17_Witness ==
  /\ impl = "part_000"
  /\ IsWait(last)
  /\ last.email = User
  /\ last.rateLimit > OTP_EXPIRE_MS
  /\ last.timeSinceLastSend = OTP_EXPIRE_MS
  /\ \E tm \in BagToSet(timers) : tm.expected = OTP[User].lastSendTime /\ tm.due = now

\* C18: with requests that do not overlap and timers run on time,
\* recentSendCount never exceeds 10, and the limit the rate limiter computes
\* never exceeds 512 times the base interval.
C18_BoundedExponent ==
  /\ \A e \in DOMAIN OTP :
       /\ OTP[e].recentSendCount <= 10
       /\ rateLimit(OTP[e]) <= 512 * OTP_RATE_LIMIT_MS
  /\ last.gated => last.rateLimit <= 512 * OTP_RATE_LIMIT_MS

\* the tenth send in a row was committed and the next request was denied
\* with a limit of 512 times the base interval
C18_Witness ==
  /\ IsWait(last)
  /\ last.email = User
  /\ last.rateLimit = 512 * OTP_RATE_LIMIT_MS
  /\ OTP[User].recentSendCount = 10

\* C19: every entry of the map has a lastSendTime exactly when its
\* recentSendCount is at least 1, and none exactly when it is 0; so when
\* sendOTP enters the rate-limit branch, recentSendCount - 1 is not negative.
C19_TimeIffCounted ==
  /\ \A e \in DOMAIN OTP :
       /\ OTP[e].recentSendCount >= 0
       /\ (OTP[e].lastSendTime # Undefined) <=> (OTP[e].recentSendCount >= 1)
       /\ (OTP[e].lastSendTime = Undefined) <=> (OTP[e].recentSendCount = 0)
  /\ IsWait(last) => OTP[last.email].recentSendCount - 1 >= 0
  /\ (last.op = "sendOTP" /\ last.at = "await" /\ last.gated) => last.prev.recentSendCount - 1 >= 0

\* the user asked again after a committed send and the rate limit: the
\* rate-limit branch was entered with recentSendCount = 1, and the entry the
\* request left holds the lastSendTime of that send
C19_Witness ==
  /\ impl = "part_000"
  /\ last.op = "sendOTP"
  /\ last.at = "await"
  /\ last.gated
  /\ last.prev.recentSendCount = 1
  /\ Truthy(OTP[last.email].lastSendTime)
  /\ OTP[last.email].recentSendCount = 1

====
